---- MODULE Spec2Model ----
(***************************************************************************)
(* Model of polygon_inclusion.PolygonRegion: construction from a vertex    *)
(* array and the winding_number / contains queries.                        *)
(*                                                                         *)
(* An ndarray is a record [shape, data, dtype]: data is the flat row-major *)
(* content, so that reshape and atleast_2d act as numpy does.  Coordinates *)
(* are integers (exact arithmetic); the docstring examples are written in  *)
(* tenths (1.0 is 10, 0.9 is 9, -0.1 is -1).                               *)
(***************************************************************************)
EXTENDS Integers, Sequences, FiniteSets

VARIABLES obj, v, lb, ub, e, ie, lastOp, lastArg, ret

vars == <<obj, v, lb, ub, e, ie, lastOp, lastArg, ret>>

\* The attributes __init__ freezes (flags.writeable = False).
frozen == <<v, lb, ub, e, ie>>

(***************************************************************************)
(* Bounds of the model.                                                    *)
(***************************************************************************)
\* Largest batch built from SamplePoints in the query inputs of Spec.
MaxBatch == 2

\* Largest number of vertices of the grid polygons of SpecGeom.
MaxVerts == 4

(***************************************************************************)
(* ndarray helpers.                                                        *)
(***************************************************************************)
RECURSIVE Flatten(_)
Flatten(rows) == IF rows = <<>> THEN <<>> ELSE Head(rows) \o Flatten(Tail(rows))

\* np.array(rows) for a sequence of equally long rows.
Array2(rows, dt) ==
    [shape |-> <<Len(rows), Len(rows[1])>>, data |-> Flatten(rows), dtype |-> dt]

\* np.array(seq) for a flat sequence.
Array1(seq, dt) == [shape |-> <<Len(seq)>>, data |-> seq, dtype |-> dt]

\* np.array with an explicit shape (any number of dimensions).
ArrayN(sh, seq, dt) == [shape |-> sh, data |-> seq, dtype |-> dt]

ndim(a) == Len(a.shape)

size(a) == Len(a.data)

\* Row r (1-based) of a two-dimensional array.
Row(a, r) ==
    LET n == a.shape[2]
    IN  [j \in 1..n |-> a.data[(r - 1) * n + j]]

Min(S) == CHOOSE x \in S : \A y \in S : x <= y

Max(S) == CHOOSE x \in S : \A y \in S : x >= y

Range(s) == {s[i] : i \in 1..Len(s)}

sign(x) == IF x > 0 THEN 1 ELSE IF x < 0 THEN -1 ELSE 0

(***************************************************************************)
(* PolygonRegion.__init__                                                  *)
(***************************************************************************)
\* The three assertions on the vertex array.
ShapeOk(vertices) ==
    /\ ndim(vertices) = 2
    /\ vertices.shape[1] = 2
    /\ vertices.shape[2] >= 3

\* np.min(vertices, axis=1) and np.max(vertices, axis=1).
AxisMin(vertices) == <<Min(Range(Row(vertices, 1))), Min(Range(Row(vertices, 2)))>>

AxisMax(vertices) == <<Max(Range(Row(vertices, 1))), Max(Range(Row(vertices, 2)))>>

\* Mutant of hstack: the last vertex is appended instead of the first, so the
\* ring is not closed.
hstack_unclosed(vertices) ==
    <<Append(Row(vertices, 1), Row(vertices, 1)[vertices.shape[2]]),
      Append(Row(vertices, 2), Row(vertices, 2)[vertices.shape[2]])>>

\* np.hstack((vertices, vertices[:, 0].reshape(2, 1))): the closed ring, as
\* its two rows.
hstack(vertices) ==
    <<Append(Row(vertices, 1), Row(vertices, 1)[1]),
      Append(Row(vertices, 2), Row(vertices, 2)[1])>>

\* np.diff along the last axis of a two-row array.
diff(rows) ==
    <<[j \in 1..(Len(rows[1]) - 1) |-> rows[1][j + 1] - rows[1][j]],
      [j \in 1..(Len(rows[2]) - 1) |-> rows[2][j + 1] - rows[2][j]]>>

\* Mutant of MakeIe: the rows are swapped but the y row is not negated.
MakeIe_unnegated(edges) == <<edges[2], edges[1]>>

\* ie = e.copy(); ie[1] *= -1.0; _ie = ie[::-1, :]
\* (y row negated, then the two rows swapped).
MakeIe(edges) ==
    <<[j \in 1..Len(edges[2]) |-> -1 * edges[2][j]], edges[1]>>

\* ie[1] *= -1.0 is an in-place multiplication by a float: numpy refuses to
\* cast the float64 product back into an integer array.
InPlaceFloatMulOk(dt) == dt = "float64"

\* The attributes of a successfully constructed PolygonRegion.
BuildPolygon(vertices) ==
    LET ring == hstack(vertices)
        edges == diff(ring)
        lo == AxisMin(vertices)
        hi == AxisMax(vertices)
    IN  [v |-> ring,
         lb |-> <<<<lo[1]>>, <<lo[2]>>>>,
         ub |-> <<<<hi[1]>>, <<hi[2]>>>>,
         e |-> edges,
         ie |-> MakeIe(edges)]

\* The exception __init__ raises, or "none".
InitError(vertices) ==
    IF ~ShapeOk(vertices) THEN "AssertionError"
    ELSE IF ~InPlaceFloatMulOk(vertices.dtype) THEN "UFuncTypeError"
    ELSE "none"

\* len(self)
len(self) == Len(self.e[1])

(***************************************************************************)
(* PolygonRegion.winding_number                                            *)
(***************************************************************************)
\* np.atleast_2d
atleast_2d(a) ==
    IF ndim(a) = 0 THEN [a EXCEPT !.shape = <<1, 1>>]
    ELSE IF ndim(a) = 1 THEN [a EXCEPT !.shape = <<1, a.shape[1]>>]
    ELSE a

\* .reshape(2, -1) succeeds exactly when the size is even.
ReshapeOk(a) == size(a) % 2 = 0

\* .reshape(2, -1) of the flat data, as its two rows.
reshape2(a) ==
    LET h == size(a) \div 2
    IN  <<SubSeq(a.data, 1, h), SubSeq(a.data, h + 1, 2 * h)>>

\* del_tails[i, j] = pp.T[i] - self.v[:, :-1].T[j]
del_tails(self, pp, i, j) == <<pp[1][i] - self.v[1][j], pp[2][i] - self.v[2][j]>>

\* Mutant of b1: a strict comparison.
b1_strict(self, pp, i, j) == del_tails(self, pp, i, j)[2] > 0

\* b1 = del_tails[:, :, 1] >= 0.0
b1(self, pp, i, j) == del_tails(self, pp, i, j)[2] >= 0

\* Mutant of b2: less_equal instead of less.
b2_le(self, pp, i, j) == pp[2][i] <= self.v[2][j + 1]

\* b2 = np.less.outer(pp[1], self.v[1, 1:])
b2(self, pp, i, j) == pp[2][i] < self.v[2][j + 1]

\* sides = np.sign(np.einsum("ijk, kj -> ij", del_tails, self._ie))
sides(self, pp, i, j) ==
    sign(del_tails(self, pp, i, j)[1] * self.ie[1][j]
         + del_tails(self, pp, i, j)[2] * self.ie[2][j])

\* Mutant of wn_at: the downward crossings are added instead of subtracted.
wn_at_sum(self, pp, i) ==
    LET m == Len(self.ie[1])
        pos == {j \in 1..m : b1(self, pp, i, j) /\ b2(self, pp, i, j)
                             /\ sides(self, pp, i, j) > 0}
        neg == {j \in 1..m : ~b1(self, pp, i, j) /\ ~b2(self, pp, i, j)
                             /\ sides(self, pp, i, j) < 0}
    IN  Cardinality(pos) + Cardinality(neg)

\* wn_pos - wn_neg for point i of pp.
wn_at(self, pp, i) ==
    LET m == Len(self.ie[1])
        pos == {j \in 1..m : b1(self, pp, i, j) /\ b2(self, pp, i, j)
                             /\ sides(self, pp, i, j) > 0}
        neg == {j \in 1..m : ~b1(self, pp, i, j) /\ ~b2(self, pp, i, j)
                             /\ sides(self, pp, i, j) < 0}
    IN  Cardinality(pos) - Cardinality(neg)

\* if len(wn) == 1: return wn[0]; return wn
Degenerate(wn) ==
    IF Len(wn) = 1 THEN [kind |-> "scalar", val |-> wn]
    ELSE [kind |-> "array", val |-> wn]

\* What winding_number(points) returns or raises.
winding_number(self, points) ==
    LET a == atleast_2d(points)
    IN  IF ~ReshapeOk(a) THEN [kind |-> "ValueError", val |-> <<>>]
        ELSE LET pp == reshape2(a)
                 wn == [i \in 1..Len(pp[1]) |-> wn_at(self, pp, i)]
             IN  Degenerate(wn)

(***************************************************************************)
(* PolygonRegion.contains                                                  *)
(***************************************************************************)
\* np.asarray(points, dtype=np.float64)
asarray_float64(points) == [points EXCEPT !.dtype = "float64"]

\* Mutant of contains: the even-odd rule.
contains_evenodd(self, points) ==
    LET r == winding_number(self, asarray_float64(points))
    IN  IF r.kind \in {"scalar", "array"}
        THEN [r EXCEPT !.val = [i \in 1..Len(r.val) |-> r.val[i] % 2 = 1]]
        ELSE r

\* self.winding_number(p) != 0, element by element; an exception propagates.
contains(self, points) ==
    LET r == winding_number(self, asarray_float64(points))
    IN  IF r.kind \in {"scalar", "array"}
        THEN [r EXCEPT !.val = [i \in 1..Len(r.val) |-> r.val[i] # 0]]
        ELSE r

(***************************************************************************)
(* State machine: one PolygonRegion object and the calls made on it.       *)
(***************************************************************************)
NoArray == [shape |-> <<0>>, data |-> <<>>, dtype |-> "none"]

NoResult == [kind |-> "none", val |-> <<>>]

\* The object as the methods see it.
Self == [v |-> v, lb |-> lb, ub |-> ub, e |-> e, ie |-> ie]

Init ==
    /\ obj = "none"
    /\ v = <<<<>>, <<>>>>
    /\ lb = <<<<>>, <<>>>>
    /\ ub = <<<<>>, <<>>>>
    /\ e = <<<<>>, <<>>>>
    /\ ie = <<<<>>, <<>>>>
    /\ lastOp = "none"
    /\ lastArg = NoArray
    /\ ret = NoResult

\* PolygonRegion(vertices): either every attribute is set and frozen, or an
\* exception leaves no object behind.
Construct(vertices) ==
    /\ obj = "none"
    /\ lastOp' = "__init__"
    /\ lastArg' = vertices
    /\ ret' = [kind |-> InitError(vertices), val |-> <<>>]
    /\ IF InitError(vertices) = "none"
       THEN /\ obj' = "ok"
            /\ v' = BuildPolygon(vertices).v
            /\ lb' = BuildPolygon(vertices).lb
            /\ ub' = BuildPolygon(vertices).ub
            /\ e' = BuildPolygon(vertices).e
            /\ ie' = BuildPolygon(vertices).ie
       ELSE /\ obj' = "error"
            /\ UNCHANGED frozen

\* Mutant of WindingNumber: the tails of the first point are computed in
\* place, in self.v.
WindingNumber_inplace(points) ==
    /\ obj = "ok"
    /\ lastOp' = "winding_number"
    /\ lastArg' = points
    /\ ret' = winding_number(Self, points)
    /\ v' = IF ReshapeOk(atleast_2d(points)) /\ size(points) > 0
            THEN <<[j \in 1..Len(v[1]) |-> v[1][j] - reshape2(atleast_2d(points))[1][1]],
                   [j \in 1..Len(v[2]) |-> v[2][j] - reshape2(atleast_2d(points))[2][1]]>>
            ELSE v
    /\ UNCHANGED <<obj, lb, ub, e, ie>>

\* poly.winding_number(points)
WindingNumber(points) ==
    /\ obj = "ok"
    /\ lastOp' = "winding_number"
    /\ lastArg' = points
    /\ ret' = winding_number(Self, points)
    /\ UNCHANGED <<obj, frozen>>

\* poly.contains(points)
Contains(points) ==
    /\ obj = "ok"
    /\ lastOp' = "contains"
    /\ lastArg' = points
    /\ ret' = contains(Self, points)
    /\ UNCHANGED <<obj, frozen>>

(***************************************************************************)
(* Inputs of Spec: the docstring polygons and malformed vertex arrays; one *)
(* point, batches of points and malformed point arrays.                    *)
(***************************************************************************)
\* "A simple polygon with 4 vertices."
Square == Array2(<<<<10, -10, -10, 10>>, <<10, 10, -10, -10>>>>, "float64")

\* "A self-intersecting polygon."
Octagon ==
    Array2(<<<<10, -20, -20, 20, 20, -10, -10, 10>>,
             <<20, 20, -20, -20, 10, 10, -10, -10>>>>, "float64")

\* The octagon with its vertices in reversed order.
OctagonReversed ==
    Array2(<<<<10, -10, -10, 20, 20, -20, -20, 10>>,
             <<-10, -10, 10, 10, -20, -20, 20, 20>>>>, "float64")

\* points[::-1, :] of the octagon: the two rows swapped.
OctagonFlipped ==
    Array2(<<<<20, 20, -20, -20, 10, 10, -10, -10>>,
             <<10, -20, -20, 20, 20, -10, -10, 10>>>>, "float64")

\* "A polygon with a simple hole inside."
HolePolygon ==
    Array2(<<<<20, -20, -20, 20, 10, 10, -10, -10>>,
             <<20, 20, -20, -20, 10, -10, -10, 10>>>>, "float64")

\* The square given with integer coordinates.
SquareInt == Array2(<<<<1, -1, -1, 1>>, <<1, 1, -1, -1>>>>, "int64")

MalformedVertices ==
    { Array2(<<<<10, -10>>, <<10, 10>>>>, "float64"),
      Array2(<<<<10, -10, -10>>, <<10, 10, -10>>, <<0, 0, 0>>>>, "float64"),
      Array2(<<<<10, 10>>, <<-10, 10>>, <<-10, -10>>, <<10, -10>>>>, "float64"),
      Array1(<<10, -10, -10, 10, 10, -10>>, "float64"),
      ArrayN(<<2, 2, 2>>, <<10, -10, -10, 10, 10, 10, -10, -10>>, "float64"),
      Array2(<<<<10, -10>>, <<10, 10>>>>, "int64") }


SamplePoints == {<<0, 0>>, <<15, 15>>, <<-10, 0>>}

\* One point as a one-dimensional array of two components.
Point(p) == Array1(<<p[1], p[2]>>, "float64")

\* A batch: the array shaped (2, M) whose columns are the points of s.
Batch(s) ==
    [shape |-> <<2, Len(s)>>,
     data |-> [k \in 1..(2 * Len(s)) |->
                  IF k <= Len(s) THEN s[k][1] ELSE s[k - Len(s)][2]],
     dtype |-> "float64"]

Batches == UNION {{Batch(s) : s \in [1..n -> SamplePoints]} : n \in 0..MaxBatch}

\* The (2, n) array whose columns are the points of the sequence s.
Polygon(s) == Batch(s)

\* The sequence s rotated to start at its (r + 1)-th element.
Rotate(s, r) == [k \in 1..Len(s) |-> s[((k - 1 + r) % Len(s)) + 1]]

\* Outer square of half-width 2, counter-clockwise.
OuterLoop == <<<<20, 20>>, <<-20, 20>>, <<-20, -20>>, <<20, -20>>>>

\* Inner square of half-width 1, clockwise.
InnerLoop == <<<<10, 10>>, <<10, -10>>, <<-10, -10>>, <<-10, 10>>>>

\* An outer loop followed by an inner loop in one vertex sequence, each loop
\* started at any of its vertices.
HolePolygons ==
    {Polygon(Rotate(OuterLoop, r) \o Rotate(InnerLoop, q)) : r \in 0..3, q \in 0..3}

\* The points of coords x coords, row by row.
GridOf(coords) ==
    [k \in 1..(Len(coords) * Len(coords)) |->
        <<coords[((k - 1) % Len(coords)) + 1],
          coords[((k - 1) \div Len(coords)) + 1]>>]

\* A grid of step 0.5 reaching beyond the docstring polygons on every side.
WideCoords == <<-25, -20, -15, -10, -5, 0, 5, 10, 15, 20, 25>>

WideBatch == Batch(GridOf(WideCoords))

MalformedPoints ==
    { Array1(<<0, 15, 0, 5>>, "float64"),
      Array1(<<0, 15, 5>>, "float64"),
      Array2(<<<<0, 15>>, <<0, 5>>, <<7, 7>>>>, "float64"),
      Array2(<<<<0>>, <<5>>, <<7>>>>, "float64"),
      ArrayN(<<2, 2, 2>>, <<0, 15, 0, 5, 0, 0, 5, 5>>, "float64"),
      ArrayN(<<>>, <<5>>, "float64") }

VertexInputs ==
    {Square, Octagon, OctagonReversed, OctagonFlipped, HolePolygon, SquareInt}
    \cup HolePolygons
    \cup MalformedVertices

PointInputs ==
    {Point(p) : p \in SamplePoints}
    \cup Batches
    \cup {Batch(<<<<5, 5>>, <<15, 5>>, <<9, -1>>>>), WideBatch}
    \cup MalformedPoints

Next ==
    \/ \E vertices \in VertexInputs : Construct(vertices)
    \/ \E points \in PointInputs : WindingNumber(points)
    \/ \E points \in PointInputs : Contains(points)

Spec == Init /\ [][Next]_vars

(***************************************************************************)
(* Inputs of SpecGeom: every sequence of 3..MaxVerts distinct points of a  *)
(* 3 x 3 grid, degenerate sequences and the docstring octagon, each        *)
(* queried with one batch holding a grid of points of half the step.       *)
(***************************************************************************)
GridCoords == {-10, 0, 10}

GridPoints == GridCoords \X GridCoords

\* A sequence that visits no point twice.
Injective(s) == \A i, j \in 1..Len(s) : i # j => s[i] # s[j]

\* Sequences with a repeated vertex (zero-length edges) and with all vertices
\* on one line or at one point.
DegeneratePolygons ==
    { Polygon(<<<<-10, -10>>, <<10, -10>>, <<10, -10>>, <<0, 10>>>>),
      Polygon(<<<<-10, -10>>, <<10, 10>>, <<-10, -10>>, <<10, 10>>>>),
      Polygon(<<<<0, 0>>, <<0, 0>>, <<0, 0>>>>),
      Polygon(<<<<-10, 0>>, <<10, 0>>, <<0, 0>>, <<10, 0>>>>),
      Polygon(<<<<0, -10>>, <<0, 10>>, <<0, 10>>>>) }

GridPolygons ==
    UNION {{Polygon(s) : s \in {t \in [1..n -> GridPoints] : Injective(t)}} :
           n \in 3..MaxVerts}

GeomVertexInputs ==
    GridPolygons \cup DegeneratePolygons \cup {Octagon, OctagonReversed}

QueryCoords == <<-15, -10, -5, 0, 5, 10, 15>>

\* The points of QueryCoords x QueryCoords, then the docstring's (0.9, -0.1).
QueryPoints == GridOf(QueryCoords) \o <<<<9, -1>>>>

GeomPointInputs == {Batch(QueryPoints)}

NextGeom ==
    \/ \E vertices \in GeomVertexInputs : Construct(vertices)
    \/ \E points \in GeomPointInputs : WindingNumber(points)
    \/ \E points \in GeomPointInputs : Contains(points)

SpecGeom == Init /\ [][NextGeom]_vars

(***************************************************************************)
(* Reading a state: the polygon held by the object and the points of the   *)
(* last query, as the query read them.                                     *)
(***************************************************************************)
\* The last call returned (did not raise).
Returned == ret.kind \in {"scalar", "array"}

Queried == lastOp = "winding_number" /\ Returned

Asked == lastOp = "contains" /\ Returned

\* The rows of the points of the last query.
QueryRows == reshape2(atleast_2d(lastArg))

PointAt(k) == <<QueryRows[1][k], QueryRows[2][k]>>

\* Vertex i of a closed ring (i = N + 1 is vertex 1 again).
Vertex(ring, i) == <<ring[1][i], ring[2][i]>>

NumEdges(ring) == Len(ring[1]) - 1

\* The vertex sequence a ring was built from.
VerticesOf(ring) == [i \in 1..NumEdges(ring) |-> Vertex(ring, i)]

Reverse(s) == [i \in 1..Len(s) |-> s[Len(s) + 1 - i]]

(***************************************************************************)
(* C9.  The per-edge contribution as the specification words it, and with  *)
(* the cross product taken as edge x tail.                                 *)
(***************************************************************************)
\* tail.x * edge.y - tail.y * edge.x, for the edge a -> b and the point p.
CrossTailEdge(a, b, p) ==
    (p[1] - a[1]) * (b[2] - a[2]) - (p[2] - a[2]) * (b[1] - a[1])

\* edge.x * tail.y - edge.y * tail.x, for the edge a -> b and the point p.
CrossEdgeTail(a, b, p) ==
    (b[1] - a[1]) * (p[2] - a[2]) - (b[2] - a[2]) * (p[1] - a[1])

Contribution(a, b, p, cross) ==
    IF a[2] <= p[2] /\ b[2] > p[2] /\ cross > 0 THEN 1
    ELSE IF a[2] > p[2] /\ b[2] <= p[2] /\ cross < 0 THEN -1
    ELSE 0

RECURSIVE SumTailEdge(_, _, _)
SumTailEdge(ring, p, i) ==
    IF i > NumEdges(ring) THEN 0
    ELSE Contribution(Vertex(ring, i), Vertex(ring, i + 1), p,
                      CrossTailEdge(Vertex(ring, i), Vertex(ring, i + 1), p))
         + SumTailEdge(ring, p, i + 1)

RECURSIVE SumEdgeTail(_, _, _)
SumEdgeTail(ring, p, i) ==
    IF i > NumEdges(ring) THEN 0
    ELSE Contribution(Vertex(ring, i), Vertex(ring, i + 1), p,
                      CrossEdgeTail(Vertex(ring, i), Vertex(ring, i + 1), p))
         + SumEdgeTail(ring, p, i + 1)

\* C9 as stated: winding_number(P) is the sum over the edges of the
\* contribution taken with cross = tail.x * edge.y - tail.y * edge.x.
C9_AsStated ==
    Queried => \A k \in 1..Len(ret.val) : ret.val[k] = SumTailEdge(v, PointAt(k), 1)

\* C9 amended: winding_number(P) is the sum over the edges of the contribution
\* taken with cross = edge.x * tail.y - edge.y * tail.x (the point is left of
\* the edge when cross > 0): +1 for an upward crossing with cross > 0, -1 for
\* a downward crossing with cross < 0, 0 otherwise, cross = 0 included.
C9_SumOfContributions ==
    Queried => \A k \in 1..Len(ret.val) : ret.val[k] = SumEdgeTail(v, PointAt(k), 1)

\* A query answered +1 at one point, -1 at another, and 0 at a point that is
\* on the supporting line of an edge whose y-range it crosses.
C9_Witness ==
    /\ Queried
    /\ \E k \in 1..Len(ret.val) : ret.val[k] = 1
    /\ \E k \in 1..Len(ret.val) : ret.val[k] = -1
    /\ \E k \in 1..Len(ret.val) : \E i \in 1..NumEdges(v) :
          /\ ret.val[k] = 0
          /\ Vertex(v, i)[2] <= PointAt(k)[2]
          /\ Vertex(v, i + 1)[2] > PointAt(k)[2]
          /\ CrossEdgeTail(Vertex(v, i), Vertex(v, i + 1), PointAt(k)) = 0

(***************************************************************************)
(* C2.  Orientation antisymmetry.                                          *)
(***************************************************************************)
\* The polygon built from the vertices of the ring in reversed order.
ReversedPolygon(ring) == BuildPolygon(Polygon(Reverse(VerticesOf(ring))))

\* A point on an edge of the ring (a vertex included).
OnEdge(ring, p) ==
    \E i \in 1..NumEdges(ring) :
        /\ CrossEdgeTail(Vertex(ring, i), Vertex(ring, i + 1), p) = 0
        /\ (p[1] - Vertex(ring, i)[1]) * (p[1] - Vertex(ring, i + 1)[1]) <= 0
        /\ (p[2] - Vertex(ring, i)[2]) * (p[2] - Vertex(ring, i + 1)[2]) <= 0

\* C2: at every query point, on the boundary or not, the winding number of
\* the polygon with its vertex order reversed is the negation of the winding
\* number of the polygon.
C2_ReversalNegates ==
    Queried =>
        LET rev == ReversedPolygon(v)
        IN  \A k \in 1..Len(ret.val) : wn_at(rev, QueryRows, k) = -1 * ret.val[k]

\* The octagon answers 2 at the origin and its reversal -2, and some point on
\* its boundary has a nonzero winding number.
C2_Witness ==
    /\ Queried
    /\ v = BuildPolygon(Octagon).v
    /\ \E k \in 1..Len(ret.val) :
          /\ PointAt(k) = <<0, 0>>
          /\ ret.val[k] = 2
          /\ wn_at(BuildPolygon(OctagonReversed), QueryRows, k) = -2
    /\ \E k \in 1..Len(ret.val) : OnEdge(v, PointAt(k)) /\ ret.val[k] # 0

(***************************************************************************)
(* C10.  The bounding box.                                                 *)
(***************************************************************************)
OutsideBox(p) ==
    \/ p[1] < lb[1][1]
    \/ p[1] > ub[1][1]
    \/ p[2] < lb[2][1]
    \/ p[2] > ub[2][1]

\* lo is the least and hi the greatest element of the sequence row.
IsMinMax(row, lo, hi) ==
    /\ \A j \in 1..Len(row) : lo <= row[j] /\ row[j] <= hi
    /\ \E j \in 1..Len(row) : row[j] = lo
    /\ \E j \in 1..Len(row) : row[j] = hi

Orient(a, b, c) == (b[1] - a[1]) * (c[2] - a[2]) - (b[2] - a[2]) * (c[1] - a[1])

\* p lies on the closed segment a-b.
OnSegment(a, b, p) ==
    /\ Orient(a, b, p) = 0
    /\ (p[1] - a[1]) * (p[1] - b[1]) <= 0
    /\ (p[2] - a[2]) * (p[2] - b[2]) <= 0

\* The closed segments a-b and c-d have a common point.
SegmentsMeet(a, b, c, d) ==
    \/ /\ sign(Orient(a, b, c)) * sign(Orient(a, b, d)) < 0
       /\ sign(Orient(c, d, a)) * sign(Orient(c, d, b)) < 0
    \/ OnSegment(a, b, c)
    \/ OnSegment(a, b, d)
    \/ OnSegment(c, d, a)
    \/ OnSegment(c, d, b)

\* Edges i and j of the ring follow one another around the ring.
Adjacent(ring, i, j) ==
    \/ j = i + 1
    \/ i = 1 /\ j = NumEdges(ring)

\* Edges i < j of the ring meet only where a simple polygon lets them: not at
\* all, or, when they follow one another, in their shared vertex alone.
EdgesApart(ring, i, j) ==
    LET a == Vertex(ring, i)
        b == Vertex(ring, i + 1)
        c == Vertex(ring, j)
        d == Vertex(ring, j + 1)
    IN  IF ~Adjacent(ring, i, j) THEN ~SegmentsMeet(a, b, c, d)
        ELSE IF j = i + 1 THEN ~OnSegment(a, b, d) /\ ~OnSegment(c, d, a)
        ELSE ~OnSegment(a, b, c) /\ ~OnSegment(c, d, b)

IsSimple(ring) ==
    /\ \A i \in 1..NumEdges(ring) : Vertex(ring, i) # Vertex(ring, i + 1)
    /\ \A i, j \in 1..NumEdges(ring) : i < j => EdgesApart(ring, i, j)

RECURSIVE Area2(_, _)
Area2(ring, i) ==
    IF i > NumEdges(ring) THEN 0
    ELSE ring[1][i] * ring[2][i + 1] - ring[1][i + 1] * ring[2][i]
         + Area2(ring, i + 1)

IsCCW(ring) == Area2(ring, 1) > 0

OnBoundary(ring, p) ==
    \E i \in 1..NumEdges(ring) : OnSegment(Vertex(ring, i), Vertex(ring, i + 1), p)

\* Edge a -> b passes strictly above p on the vertical line through p.
PassesAbove(a, b, p) ==
    \/ a[1] <= p[1] /\ p[1] < b[1] /\ Orient(a, b, p) < 0
    \/ b[1] <= p[1] /\ p[1] < a[1] /\ Orient(a, b, p) > 0

EdgesAbove(ring, p) ==
    Cardinality({i \in 1..NumEdges(ring) :
                    PassesAbove(Vertex(ring, i), Vertex(ring, i + 1), p)})

StrictlyInside(ring, p) == ~OnBoundary(ring, p) /\ EdgesAbove(ring, p) % 2 = 1

StrictlyOutside(ring, p) == ~OnBoundary(ring, p) /\ EdgesAbove(ring, p) % 2 = 0

\* C1: for a simple polygon given counter-clockwise, winding_number is 1 at
\* every point strictly inside and 0 at every point strictly outside.
C1_SimpleCCW ==
    (Queried /\ IsSimple(v) /\ IsCCW(v)) =>
        \A k \in 1..Len(ret.val) :
            /\ StrictlyInside(v, PointAt(k)) => ret.val[k] = 1
            /\ StrictlyOutside(v, PointAt(k)) => ret.val[k] = 0

\* The docstring's square: 1 at (0, 0), 0 at (1.5, 0.5), 1 at (0.9, -0.1).
C1_Witness ==
    /\ Queried
    /\ v = BuildPolygon(Square).v
    /\ IsSimple(v) /\ IsCCW(v)
    /\ \E k \in 1..Len(ret.val) :
          PointAt(k) = <<0, 0>> /\ StrictlyInside(v, PointAt(k)) /\ ret.val[k] = 1
    /\ \E k \in 1..Len(ret.val) :
          PointAt(k) = <<15, 5>> /\ StrictlyOutside(v, PointAt(k)) /\ ret.val[k] = 0
    /\ \E k \in 1..Len(ret.val) :
          PointAt(k) = <<9, -1>> /\ StrictlyInside(v, PointAt(k)) /\ ret.val[k] = 1

\* A simple counter-clockwise polygon that is not convex, queried inside and
\* outside.
C1_NonConvexReached ==
    /\ Queried
    /\ IsSimple(v) /\ IsCCW(v)
    /\ \E i \in 1..NumEdges(v) :
          Orient(Vertex(v, i), Vertex(v, i + 1),
                 Vertex(v, IF i + 2 > NumEdges(v) THEN i + 2 - NumEdges(v) ELSE i + 2)) < 0
    /\ \E k \in 1..Len(ret.val) : StrictlyInside(v, PointAt(k))
    /\ \E k \in 1..Len(ret.val) : StrictlyOutside(v, PointAt(k))

(***************************************************************************)
(* C4.  contains is the nonzero rule.                                      *)
(***************************************************************************)
\* C4: contains(P) is true exactly when winding_number(P) is nonzero, and
\* raises exactly when winding_number raises.
C4_NonzeroRule ==
    lastOp = "contains" =>
        /\ ret.kind = winding_number(Self, lastArg).kind
        /\ Returned =>
              \A k \in 1..Len(ret.val) :
                  ret.val[k] = (wn_at(Self, QueryRows, k) # 0)

\* One contains call answering TRUE at a point of winding number 2 and FALSE
\* at a point of winding number 0.
C4_Witness ==
    /\ Asked
    /\ \E k \in 1..Len(ret.val) : wn_at(Self, QueryRows, k) = 2 /\ ret.val[k] = TRUE
    /\ \E k \in 1..Len(ret.val) : wn_at(Self, QueryRows, k) = 0 /\ ret.val[k] = FALSE

\* A contains call answering TRUE at a point of winding number -2.
C4_MinusTwoReached ==
    /\ Asked
    /\ \E k \in 1..Len(ret.val) : wn_at(Self, QueryRows, k) = -2 /\ ret.val[k] = TRUE

(***************************************************************************)
(* C5, C6.  The shape of the points argument and of the result.            *)
(***************************************************************************)
\* A bare point: a one-dimensional array of two components.
IsBarePoint(a) == a.shape = <<2>>

\* A batch of M two-dimensional points: an array shaped (2, M).
IsBatch(a) == ndim(a) = 2 /\ a.shape[1] = 2

Called == lastOp \in {"winding_number", "contains"}

\* C5 as stated: a bare point yields a scalar, and a batch of M points
\* yields a sequence of M results for every M, M = 1 included.
C5_AsStated ==
    Called =>
        /\ IsBarePoint(lastArg) => ret.kind = "scalar"
        /\ IsBatch(lastArg) =>
              ret.kind = "array" /\ Len(ret.val) = lastArg.shape[2]

\* C6 as stated: a points argument that is neither a bare point nor a batch
\* of two-dimensional points makes the call raise.
C6_AsStated ==
    (Called /\ ~IsBarePoint(lastArg) /\ ~IsBatch(lastArg)) => ~Returned

(***************************************************************************)
(* C7.  Construction succeeds exactly on well-shaped input.                *)
(***************************************************************************)
\* At least three points, in a two-dimensional array, of two components each.
WellShaped(a) ==
    /\ Len(a.shape) = 2
    /\ a.shape[1] = 2
    /\ a.shape[2] >= 3

\* C7 as stated: construction raises, leaving no object, when the input is
\* not well shaped, and succeeds for every input that is.
C7_AsStated ==
    lastOp = "__init__" =>
        /\ ~WellShaped(lastArg) => obj = "error" /\ ret.kind # "none"
        /\ WellShaped(lastArg) => obj = "ok"

(***************************************************************************)
(* C8.  Queries leave the object as construction made it.                  *)
(***************************************************************************)
\* What a call on a freshly built polygon of the same vertices gives.
Fresh(op, ring, points) ==
    IF op = "winding_number"
    THEN winding_number(BuildPolygon(Polygon(VerticesOf(ring))), points)
    ELSE contains(BuildPolygon(Polygon(VerticesOf(ring))), points)

\* C8: every call on a constructed polygon, failing calls included, leaves v,
\* e, _ie, lb and ub unchanged, and answers as a freshly built polygon would.
C8_QueriesFrameFrozen ==
    [][obj = "ok" => /\ frozen' = frozen
                     /\ ret' = Fresh(lastOp', v, lastArg')]_vars

\* A failed call on the octagon that left the attributes as built.
C8_Witness ==
    /\ obj = "ok"
    /\ lastOp = "contains"
    /\ ret.kind = "ValueError"
    /\ Self = BuildPolygon(Octagon)

(***************************************************************************)
(* C3.  An outer loop followed by an inner loop of opposite orientation.   *)
(* The ring is closed once, after the inner loop: the closing edge of each *)
(* loop is absent and two bridging edges (last outer vertex -> first inner *)
(* vertex, last inner vertex -> first outer vertex) take their place.      *)
(***************************************************************************)
IsHoleRing(ring) == \E h \in HolePolygons : BuildPolygon(h).v = ring

\* Strictly inside the inner square.
InHole(p) == -10 < p[1] /\ p[1] < 10 /\ -10 < p[2] /\ p[2] < 10

\* Strictly inside the outer square and strictly outside the inner one.
InAnnulus(p) ==
    /\ -20 < p[1] /\ p[1] < 20 /\ -20 < p[2] /\ p[2] < 20
    /\ p[1] < -10 \/ p[1] > 10 \/ p[2] < -10 \/ p[2] > 10

OuterOf(ring) == SubSeq(VerticesOf(ring), 1, Len(OuterLoop))

InnerOf(ring) == SubSeq(VerticesOf(ring), Len(OuterLoop) + 1, NumEdges(ring))

\* The quadrilateral of the two bridging edges and the two reversed closing
\* edges.
BridgeOf(ring) ==
    <<OuterOf(ring)[Len(OuterLoop)], InnerOf(ring)[1],
      InnerOf(ring)[Len(InnerLoop)], OuterOf(ring)[1]>>

C3_HoleNotZeroReached ==
    /\ Queried
    /\ IsHoleRing(v)
    /\ \E k \in 1..Len(ret.val) : InHole(PointAt(k)) /\ ret.val[k] # 0

====
